---- MODULE Spec2Model ----
(***************************************************************************)
(* HeartDiseaseETL (src/etl_pipeline/pipeline.py): extract -> transform -> *)
(* load, with the DataFrame objects kept on a heap so that aliasing (which *)
(* frame an in-place edit touches) is visible.                             *)
(***************************************************************************)
EXTENDS Integers, Sequences, FiniteSets, TLC

\* ------------------------------------------------------------ bounds
MaxRows == 3
MaxRuns == 2

\* ------------------------------------------------------------ cells
\* A cell is a Python object: an int, a str, or a missing marker (pd.NA/NaN).
IntCell(n) == [k |-> "int", n |-> n, s |-> ""]
StrCell(s) == [k |-> "str", n |-> 0, s |-> s]
NA == [k |-> "na", n |-> 0, s |-> ""]

\* the sentinel of line 67
Sentinel == StrCell("?")

\* Text that Python/pandas parses as a number, with its value.
NumLiteral == ("1" :> 1) @@ ("2" :> 2)

\* Text forms of calendar dates: [form, canonical %Y-%m-%d rendering, UTC offset].
DateLiteral ==
    ("2020-01-15" :> [form |-> "iso", ymd |-> "2020-01-15", tz |-> "none"]) @@
    ("01/15/2020" :> [form |-> "us", ymd |-> "2020-01-15", tz |-> "none"]) @@
    ("2020-01-16T00:00+01:00" :> [form |-> "isotz", ymd |-> "2020-01-16", tz |-> "+01"]) @@
    ("2020-01-16T00:00+02:00" :> [form |-> "isotz", ymd |-> "2020-01-16", tz |-> "+02"])

\* ------------------------------------------------------------ column names
\* A column label is a str (a sequence of characters) or, as pandas allows, an int.
StrName(chars) == [k |-> "str", chars |-> chars, n |-> 0]
IntName(n) == [k |-> "int", chars |-> <<>>, n |-> n]

age == StrName(<<"a", "g", "e">>)
chol == StrName(<<"c", "h", "o", "l">>)
VisitDate == StrName(<<"D", "a", "t", "e">>)
col0 == IntName(0)

\* str.lower(), character by character
LowerChar(c) ==
    CASE c = "A" -> "a" [] c = "D" -> "d" [] c = "E" -> "e" [] c = "T" -> "t"
      [] OTHER -> c
Lower(chars) == [i \in DOMAIN chars |-> LowerChar(chars[i])]

\* `sub in s` for Python strings
Contains(s, sub) ==
    \E i \in 0..(Len(s) - Len(sub)) :
        \A j \in 1..Len(sub) : s[i + j] = sub[j]

\* ------------------------------------------------------------ tables
\* A DataFrame: column labels and rows, each row carrying its index label.
Row(i, cells) == [idx |-> i, cells |-> cells]
Frame(cols, rows) == [cols |-> cols, rows |-> rows]

Column(t, c) == [i \in 1..Len(t.rows) |-> t.rows[i].cells[c]]
NRows(t) == Len(t.rows)
NCols(t) == Len(t.cols)

\* t with column c replaced by vals (df[col] = vals)
SetColumn(t, c, vals) ==
    [t EXCEPT !.rows = [i \in 1..Len(t.rows) |->
        [t.rows[i] EXCEPT !.cells[c] = vals[i]]]]

\* the rows of s at the positions in keep, order preserved (boolean-mask indexing)
RECURSIVE SelectRows(_, _, _)
SelectRows(s, keep, i) ==
    IF i > Len(s) THEN <<>>
    ELSE (IF i \in keep THEN <<s[i]>> ELSE <<>>) \o SelectRows(s, keep, i + 1)

\* ------------------------------------------------------------ pandas operations
\* slip: drop_duplicates(subset=<first column>): rows compared on one column
DuplicatedOnFirstColumn(rows) ==
    {i \in 1..Len(rows) : \E j \in 1..(i - 1) :
        Len(rows[i].cells) > 0 /\ rows[j].cells[1] = rows[i].cells[1]}

\* DataFrame.duplicated(keep="first"): the positions whose cells equal an earlier row's
Duplicated(rows) ==
    {i \in 1..Len(rows) : \E j \in 1..(i - 1) : rows[j].cells = rows[i].cells}

\* DataFrame.drop_duplicates(): a new frame without the duplicated rows
DropDuplicatesFrame(t) ==
    Frame(t.cols, SelectRows(t.rows, (1..Len(t.rows)) \ Duplicated(t.rows), 1))

\* DataFrame.replace("?", pd.NA): every cell equal to the sentinel becomes missing
ReplaceCell(c) == IF c = Sentinel THEN NA ELSE c
ReplaceFrame(t) ==
    [t EXCEPT !.rows = [i \in 1..Len(t.rows) |->
        [t.rows[i] EXCEPT !.cells = [c \in DOMAIN t.rows[i].cells |->
            ReplaceCell(t.rows[i].cells[c])]]]]

\* DataFrame.dropna(): a new frame without the rows that hold a missing marker
HasMissing(r) == \E c \in DOMAIN r.cells : r.cells[c].k = "na"
DropnaFrame(t) ==
    Frame(t.cols, SelectRows(t.rows, {i \in 1..Len(t.rows) : ~HasMissing(t.rows[i])}, 1))

\* pd.to_numeric on one value: ints stay, numeric text is parsed, other text fails
ParsesAsNumber(c) == c.k = "int" \/ c.k = "na" \/ (c.k = "str" /\ c.s \in DOMAIN NumLiteral)
ParseNumber(c) == IF c.k = "str" THEN IntCell(NumLiteral[c.s]) ELSE c

\* slip: errors="coerce": the values that parse are converted, the others lost
to_numeric_coerce(col) ==
    [raised |-> FALSE,
     vals |-> [i \in DOMAIN col |-> IF ParsesAsNumber(col[i]) THEN ParseNumber(col[i]) ELSE NA]]

\* pd.to_numeric(series), errors="raise": raises unless every value parses
to_numeric(col) ==
    IF \A i \in DOMAIN col : ParsesAsNumber(col[i])
    THEN [raised |-> FALSE, vals |-> [i \in DOMAIN col |-> ParseNumber(col[i])]]
    ELSE [raised |-> TRUE, vals |-> col]

\* 'date' in col.lower() (line 79); .lower() exists on str labels only
HasLower(name) == name.k = "str"
IsDateName(name) == Contains(Lower(name.chars), <<"d", "a", "t", "e">>)

\* pd.to_datetime(series, errors="coerce").dt.strftime("%Y-%m-%d").
\* strict: the build infers one format from the first value and coerces the
\* values of another format to NaT (pandas >= 2); otherwise each value is parsed
\* on its own (pandas < 2). Values with different UTC offsets give an object
\* column without .dt, which raises.
IsDateText(c) == c.k = "str" /\ c.s \in DOMAIN DateLiteral
Offsets(col) == {DateLiteral[col[i].s].tz : i \in {j \in DOMAIN col : IsDateText(col[j])}}
InferredForm(col) ==
    IF Len(col) > 0 /\ IsDateText(col[1]) THEN DateLiteral[col[1].s].form ELSE "any"
FormatDate(c, form) ==
    CASE c.k = "int" -> StrCell("1970-01-01")
      [] IsDateText(c) /\ (form = "any" \/ DateLiteral[c.s].form = form) ->
            StrCell(DateLiteral[c.s].ymd)
      [] OTHER -> NA
to_datetime_strftime(col, strict) ==
    IF Cardinality(Offsets(col)) > 1
    THEN [raised |-> TRUE, vals |-> col]
    ELSE [raised |-> FALSE,
          vals |-> [i \in DOMAIN col |->
                       FormatDate(col[i], IF strict THEN InferredForm(col) ELSE "any")]]

\* slip: if_exists="append": the frame's rows are added to the stored ones
to_sql_append(stored, t) ==
    [exists |-> TRUE, cols |-> t.cols,
     rows |-> (IF stored.exists THEN stored.rows ELSE <<>>) \o
              [i \in 1..Len(t.rows) |-> t.rows[i].cells]]

\* DataFrame.to_sql(name, engine, if_exists="replace", index=False): the stored
\* table is dropped and recreated from the frame's own columns, without the index
NoTable == [exists |-> FALSE, cols |-> <<>>, rows |-> <<>>]
to_sql(stored, t) ==
    [exists |-> TRUE, cols |-> t.cols,
     rows |-> [i \in 1..Len(t.rows) |-> t.rows[i].cells]]

\* ------------------------------------------------------------ input tables
\* A schema: per column, its label and the cell values drawn for it.
Field(name, dom) == [name |-> name, dom |-> dom]

Schemas ==
    { <<>>,
      <<Field(age, {IntCell(1), IntCell(2), StrCell("1"), StrCell("x"), Sentinel, NA})>>,
      <<Field(age, {IntCell(1), StrCell("1"), Sentinel}),
        Field(chol, {IntCell(2), StrCell("x"), NA})>>,
      <<Field(VisitDate, {StrCell("2020-01-15"), StrCell("01/15/2020"), StrCell("bad"), Sentinel})>>,
      <<Field(VisitDate, {StrCell("2020-01-16T00:00+01:00"), StrCell("2020-01-16T00:00+02:00"),
                          StrCell("bad")})>>,
      <<Field(age, {IntCell(1), StrCell("x")}),
        Field(VisitDate, {StrCell("2020-01-15"), StrCell("bad")})>>,
      <<Field(col0, {IntCell(1), Sentinel})>> }

AllCells == UNION {UNION {sch[i].dom : i \in DOMAIN sch} : sch \in Schemas}

\* the cell tuples a schema allows
CellRows(sch) ==
    {r \in [DOMAIN sch -> AllCells] : \A i \in DOMAIN sch : r[i] \in sch[i].dom}

\* every frame of a schema with n rows, under the default RangeIndex 0..n-1
FramesOf(sch, n) ==
    IF sch = <<>> /\ n > 0 THEN {}
    ELSE {Frame([i \in DOMAIN sch |-> sch[i].name], [i \in 1..n |-> Row(i - 1, f[i])]) :
            f \in [1..n -> CellRows(sch)]}

AllTables == UNION {UNION {FramesOf(sch, n) : n \in 0..MaxRows} : sch \in Schemas}

\* the datasets the repository publishes over a sequence of runs
Published ==
    { Frame(<<age>>, <<Row(0, <<StrCell("1")>>), Row(1, <<IntCell(1)>>)>>),
      Frame(<<age, chol>>, <<Row(0, <<StrCell("1"), IntCell(2)>>),
                             Row(1, <<Sentinel, IntCell(2)>>),
                             Row(2, <<StrCell("1"), IntCell(2)>>)>>),
      Frame(<<VisitDate>>, <<Row(0, <<StrCell("2020-01-15")>>), Row(1, <<StrCell("bad")>>)>>),
      Frame(<<VisitDate>>, <<Row(0, <<StrCell("2020-01-16T00:00+01:00")>>),
                             Row(1, <<StrCell("2020-01-16T00:00+02:00")>>)>>),
      Frame(<<age>>, <<>>),
      Frame(<<col0>>, <<Row(0, <<IntCell(1)>>)>>) }

\* what the destination table may hold before the first run
PriorTable ==
    [exists |-> TRUE, cols |-> <<age>>, rows |-> << <<IntCell(2)>>, <<IntCell(2)>> >>]

\* ------------------------------------------------------------ state
VARIABLES
    pc,          \* where run() stands
    runs,        \* runs started so far
    budget,      \* runs this behaviour may start
    remote,      \* the dataset the repository publishes
    db,          \* the destination table in the relational store
    db_before,   \* db when the current run started
    heap,        \* the DataFrame objects of the current run, by reference
    raw_df,      \* run(): reference returned by extract (0: unset)
    cleaned_df,  \* run(): reference returned by transform (0: unset)
    df,          \* transform(): the local df
    col,         \* transform(): position of the numeric loop
    date_cols,   \* transform(): date columns still to standardize
    survivors,   \* the frame as it left dropna
    calls,       \* the stage calls of the current run, in order
    log,         \* the log lines of the current run
    fetches,     \* the ids fetch_ucirepo was called with in the current run
    writes,      \* the table names to_sql was called with in the current run
    raised,      \* the exception run() ended with
    loaded,      \* outcome of the current run's load
    lastLoaded   \* the frame of the most recent load that succeeded

vars == <<pc, runs, budget, remote, db, db_before, heap, raw_df, cleaned_df, df, col,
          date_cols, survivors, calls, log, fetches, writes, raised, loaded, lastLoaded>>

runVars == <<runs, budget, remote>>
frameVars == <<heap, raw_df, cleaned_df, df, col, date_cols, survivors>>

Log(msg, n) == [msg |-> msg, n |-> n]
Call(stage, arg) == [stage |-> stage, arg |-> arg]
NoFrame == Frame(<<>>, <<>>)
Nothing == [some |-> FALSE, frame |-> NoFrame]

InitCommon ==
    /\ pc = "idle"
    /\ runs = 0
    /\ db \in {NoTable, PriorTable}
    /\ db_before = db
    /\ heap = <<>>
    /\ raw_df = 0 /\ cleaned_df = 0 /\ df = 0
    /\ col = 0
    /\ date_cols = <<>>
    /\ survivors = NoFrame
    /\ calls = <<>>
    /\ log = <<>>
    /\ fetches = <<>> /\ writes = <<>>
    /\ raised = "none"
    /\ loaded = "none"
    /\ lastLoaded = Nothing

\* a sequence of runs over the published datasets
Init ==
    /\ InitCommon
    /\ budget = MaxRuns
    /\ remote \in Published

\* one run over any input table
InitT ==
    /\ InitCommon
    /\ budget = 1
    /\ remote \in AllTables

\* ------------------------------------------------------------ heap operations
\* slip: with nothing to drop the caller's own object is handed back
drop_duplicates_view(h, r) ==
    IF Duplicated(h[r].rows) = {}
    THEN [heap |-> h, ref |-> r]
    ELSE [heap |-> Append(h, DropDuplicatesFrame(h[r])), ref |-> Len(h) + 1]

\* df.drop_duplicates() (line 63): the result is a new object
drop_duplicates(h, r) ==
    [heap |-> Append(h, DropDuplicatesFrame(h[r])), ref |-> Len(h) + 1]

\* df.replace("?", pd.NA, inplace=True) (line 67): edits the object df names
replace_inplace(h, r) == [h EXCEPT ![r] = ReplaceFrame(h[r])]

\* df.dropna() (line 68): the result is a new object
dropna(h, r) ==
    [heap |-> Append(h, DropnaFrame(h[r])), ref |-> Len(h) + 1]

\* df[col] = values (lines 74, 82): edits the object df names
set_column(h, r, c, vals) == [h EXCEPT ![r] = SetColumn(h[r], c, vals)]

\* [col for col in df.columns if 'date' in col.lower()] as column positions
DateCols(cols) ==
    SelectRows([i \in 1..Len(cols) |-> i], {i \in 1..Len(cols) : IsDateName(cols[i])}, 1)

\* the configuration __init__ keeps (line 24, lines 28-30)
table_name == "heart_disease"
data_id == 45

\* the arguments run() passes on (lines 110, 111)
TransformArg == raw_df
\* slip: load is handed the raw frame
LoadArgRaw == raw_df
LoadArg == cleaned_df

\* slip: the handler covers create_engine only
LoadCatchesEngineOnly(exc) == exc = "engine"
\* what `except Exception` of load catches (line 101)
LoadCatches(exc) == exc \in {"engine", "write"}

\* ------------------------------------------------------------ run()
\* a run starts (line 108); each run constructs fresh in-memory state, and the
\* repository may have published another dataset since the run before
Start ==
    /\ pc \in {"idle", "done", "failed"}
    /\ runs < budget
    /\ pc' = "extract"
    /\ runs' = runs + 1
    /\ db_before' = db
    /\ heap' = <<>>
    /\ raw_df' = 0 /\ cleaned_df' = 0 /\ df' = 0
    /\ col' = 0
    /\ date_cols' = <<>>
    /\ survivors' = NoFrame
    /\ calls' = <<>>
    /\ log' = <<Log("starting", 0)>>
    /\ fetches' = <<>> /\ writes' = <<>>
    /\ raised' = "none"
    /\ loaded' = "none"
    /\ remote' \in (IF runs = 0 THEN {remote} ELSE Published)
    /\ UNCHANGED <<budget, db, lastLoaded>>

\* extract() returns the fetched frame (lines 39-43, 109)
ExtractOk ==
    /\ pc = "extract"
    /\ calls' = Append(calls, Call("extract", 0))
    /\ fetches' = Append(fetches, data_id)
    /\ heap' = Append(heap, remote)
    /\ raw_df' = Len(heap) + 1
    /\ log' = log \o <<Log("extracting", 0), Log("extracted", NRows(remote))>>
    /\ pc' = "transform"
    /\ UNCHANGED <<runVars, db, db_before, cleaned_df, df, col, date_cols, survivors,
                   writes, raised, loaded, lastLoaded>>

\* slip: extract swallows the failed fetch and hands back an empty frame
ExtractFailSwallowed ==
    /\ pc = "extract"
    /\ calls' = Append(calls, Call("extract", 0))
    /\ fetches' = Append(fetches, data_id)
    /\ heap' = Append(heap, NoFrame)
    /\ raw_df' = Len(heap) + 1
    /\ log' = Append(log, Log("extracting", 0))
    /\ raised' = "FetchError"
    /\ pc' = "transform"
    /\ UNCHANGED <<runVars, db, db_before, cleaned_df, df, col, date_cols, survivors,
                   writes, loaded, lastLoaded>>

\* fetch_ucirepo raises (line 40); run() has no handler, so it leaves run()
ExtractFail ==
    /\ pc = "extract"
    /\ calls' = Append(calls, Call("extract", 0))
    /\ fetches' = Append(fetches, data_id)
    /\ log' = Append(log, Log("extracting", 0))
    /\ raised' = "FetchError"
    /\ pc' = "failed"
    /\ UNCHANGED <<runVars, db, db_before, frameVars, writes, loaded, lastLoaded>>

\* ------------------------------------------------------------ transform()
\* lines 59-64: df = df.drop_duplicates()
TDedup ==
    /\ pc = "transform"
    /\ calls' = Append(calls, Call("transform", TransformArg))
    /\ LET res == drop_duplicates(heap, TransformArg) IN
        /\ heap' = res.heap
        /\ df' = res.ref
        /\ log' = log \o <<Log("transforming", 0),
                           Log("removed_duplicates",
                               NRows(heap[TransformArg]) - NRows(res.heap[res.ref]))>>
    /\ pc' = "replace"
    /\ UNCHANGED <<runVars, db, db_before, raw_df, cleaned_df, col, date_cols, survivors,
                   fetches, writes, raised, loaded, lastLoaded>>

\* line 67: df.replace("?", pd.NA, inplace=True)
TReplace ==
    /\ pc = "replace"
    /\ heap' = replace_inplace(heap, df)
    /\ pc' = "dropna"
    /\ UNCHANGED <<runVars, db, db_before, raw_df, cleaned_df, df, col, date_cols, survivors,
                   calls, log, fetches, writes, raised, loaded, lastLoaded>>

\* lines 68-69: df = df.dropna()
TDropna ==
    /\ pc = "dropna"
    /\ LET res == dropna(heap, df) IN
        /\ heap' = res.heap
        /\ df' = res.ref
        /\ survivors' = res.heap[res.ref]
        /\ log' = Append(log, Log("removed_missing", NRows(res.heap[res.ref])))
    /\ col' = 1
    /\ pc' = "numeric"
    /\ UNCHANGED <<runVars, db, db_before, raw_df, cleaned_df, date_cols, calls, fetches,
                   writes, raised, loaded, lastLoaded>>

\* lines 72-74: one column converted
TNumericOk ==
    /\ pc = "numeric"
    /\ col <= NCols(heap[df])
    /\ LET res == to_numeric(Column(heap[df], col)) IN
        /\ ~res.raised
        /\ heap' = set_column(heap, df, col, res.vals)
    /\ col' = col + 1
    /\ UNCHANGED <<runVars, db, db_before, raw_df, cleaned_df, df, date_cols, survivors, pc,
                   calls, log, fetches, writes, raised, loaded, lastLoaded>>

\* lines 75-76: the conversion raised; the column is skipped with a warning
TNumericExcept ==
    /\ pc = "numeric"
    /\ col <= NCols(heap[df])
    /\ to_numeric(Column(heap[df], col)).raised
    /\ log' = Append(log, Log("warn_numeric", col))
    /\ col' = col + 1
    /\ UNCHANGED <<runVars, db, db_before, heap, raw_df, cleaned_df, df, date_cols, survivors,
                   pc, calls, fetches, writes, raised, loaded, lastLoaded>>

\* line 79: the date columns are collected
TDateCols ==
    /\ pc = "numeric"
    /\ col > NCols(heap[df])
    /\ \A i \in 1..NCols(heap[df]) : HasLower(heap[df].cols[i])
    /\ date_cols' = DateCols(heap[df].cols)
    /\ pc' = "date"
    /\ UNCHANGED <<runVars, db, db_before, heap, raw_df, cleaned_df, df, col, survivors,
                   calls, log, fetches, writes, raised, loaded, lastLoaded>>

\* line 79: col.lower() raises on a label that is no str; nothing catches it
TDateColsRaise ==
    /\ pc = "numeric"
    /\ col > NCols(heap[df])
    /\ \E i \in 1..NCols(heap[df]) : ~HasLower(heap[df].cols[i])
    /\ raised' = "AttributeError"
    /\ pc' = "failed"
    /\ UNCHANGED <<runVars, db, db_before, frameVars, calls, log, fetches, writes, loaded,
                   lastLoaded>>

\* lines 80-83: one date column standardized
TDateOk ==
    /\ pc = "date"
    /\ date_cols # <<>>
    /\ \E strict \in BOOLEAN :
        LET res == to_datetime_strftime(Column(heap[df], Head(date_cols)), strict) IN
            /\ ~res.raised
            /\ heap' = set_column(heap, df, Head(date_cols), res.vals)
    /\ log' = Append(log, Log("standardized_date", Head(date_cols)))
    /\ date_cols' = Tail(date_cols)
    /\ UNCHANGED <<runVars, db, db_before, raw_df, cleaned_df, df, col, survivors, pc,
                   calls, fetches, writes, raised, loaded, lastLoaded>>

\* lines 84-85: standardizing raised; the column is skipped with a warning
TDateExcept ==
    /\ pc = "date"
    /\ date_cols # <<>>
    /\ \E strict \in BOOLEAN :
        to_datetime_strftime(Column(heap[df], Head(date_cols)), strict).raised
    /\ log' = Append(log, Log("warn_date", Head(date_cols)))
    /\ date_cols' = Tail(date_cols)
    /\ UNCHANGED <<runVars, db, db_before, heap, raw_df, cleaned_df, df, col, survivors, pc,
                   calls, fetches, writes, raised, loaded, lastLoaded>>

\* line 87, line 110: transform returns df
TReturn ==
    /\ pc = "date"
    /\ date_cols = <<>>
    /\ cleaned_df' = df
    /\ pc' = "load"
    /\ UNCHANGED <<runVars, db, db_before, heap, raw_df, df, col, date_cols, survivors,
                   calls, log, fetches, writes, raised, loaded, lastLoaded>>

\* ------------------------------------------------------------ load()
\* line 98 raises: create_engine rejects the URI or finds no driver
LoadEngineFail ==
    /\ pc = "load"
    /\ calls' = Append(calls, Call("load", LoadArg))
    /\ IF LoadCatches("engine")
       THEN /\ log' = log \o <<Log("loading", 0), Log("load_error", 0)>>
            /\ loaded' = "engine_failed"
            /\ pc' = "complete"
            /\ raised' = raised
       ELSE /\ log' = Append(log, Log("loading", 0))
            /\ loaded' = "raised"
            /\ pc' = "failed"
            /\ raised' = "LoadError"
    /\ UNCHANGED <<runVars, db, db_before, frameVars, fetches, writes, lastLoaded>>

\* lines 98-100: the frame replaces the destination table
LoadWriteOk ==
    /\ pc = "load"
    /\ calls' = Append(calls, Call("load", LoadArg))
    /\ writes' = Append(writes, table_name)
    /\ db' = to_sql(db, heap[LoadArg])
    /\ lastLoaded' = [some |-> TRUE, frame |-> heap[LoadArg]]
    /\ log' = log \o <<Log("loading", 0), Log("loaded", 0)>>
    /\ loaded' = "ok"
    /\ pc' = "complete"
    /\ UNCHANGED <<runVars, db_before, frameVars, fetches, raised>>

\* line 99 raises: the store refuses the connection (the table is as it was), or
\* the replace fails after its DROP (no table) or after its CREATE (no rows)
LoadWriteFail ==
    /\ pc = "load"
    /\ calls' = Append(calls, Call("load", LoadArg))
    /\ writes' = Append(writes, table_name)
    /\ db' \in {db, NoTable, [to_sql(db, heap[LoadArg]) EXCEPT !.rows = <<>>]}
    /\ IF LoadCatches("write")
       THEN /\ log' = log \o <<Log("loading", 0), Log("load_error", 0)>>
            /\ loaded' = "write_failed"
            /\ pc' = "complete"
            /\ raised' = raised
       ELSE /\ log' = Append(log, Log("loading", 0))
            /\ loaded' = "raised"
            /\ pc' = "failed"
            /\ raised' = "LoadError"
    /\ UNCHANGED <<runVars, db_before, frameVars, fetches, lastLoaded>>

\* line 112: run() reports completion
Complete ==
    /\ pc = "complete"
    /\ log' = Append(log, Log("completed", 0))
    /\ pc' = "done"
    /\ UNCHANGED <<runVars, db, db_before, frameVars, calls, fetches, writes, raised, loaded,
                   lastLoaded>>

\* ------------------------------------------------------------ specifications
Transform ==
    \/ TDedup \/ TReplace \/ TDropna
    \/ TNumericOk \/ TNumericExcept
    \/ TDateCols \/ TDateColsRaise
    \/ TDateOk \/ TDateExcept
    \/ TReturn

Load == LoadEngineFail \/ LoadWriteOk \/ LoadWriteFail

Next == Start \/ ExtractOk \/ ExtractFail \/ Transform \/ Load \/ Complete

\* runs of the pipeline over the published datasets
Spec == Init /\ [][Next]_vars

\* one run over every input table within the bounds
SpecT == InitT /\ [][Next]_vars

\* ------------------------------------------------------------ properties
Stages == [i \in 1..Len(calls) |-> calls[i].stage]
Pipeline == <<"extract", "transform", "load">>
IsPrefix(a, b) == Len(a) <= Len(b) /\ \A i \in 1..Len(a) : a[i] = b[i]
Logged(msg) == \E i \in 1..Len(log) : log[i].msg = msg
RunEnded == pc \in {"done", "failed"}

\* C1 as stated: every run invokes extract, transform and load once each, in
\* that order, and performs the remote fetch and the database write exactly once.
C1_ExactlyOnceEveryRun ==
    RunEnded =>
        /\ Stages = Pipeline
        /\ Len(fetches) = 1
        /\ Len(writes) = 1

\* C1 amended: the stages are invoked in the order extract, transform, load, each
\* at most once; transform is handed the frame extract returned and load the
\* frame transform returned; the fetch happens exactly once per run and the write
\* at most once: once when load obtains an engine, never when extract or
\* transform ends the run with an exception or create_engine fails.
C1_StageOrder ==
    /\ IsPrefix(Stages, Pipeline)
    /\ Len(fetches) <= 1 /\ Len(writes) <= 1
    /\ (Len(calls) >= 1 => fetches = <<data_id>>)
    /\ (Len(calls) >= 2 => calls[2].arg = raw_df /\ raw_df # 0 /\ heap[calls[2].arg] = remote)
    /\ (Len(calls) >= 3 =>
            /\ calls[3].arg = cleaned_df /\ cleaned_df = df /\ cleaned_df # raw_df
            /\ (writes = <<table_name>> <=> loaded # "engine_failed"))
    /\ (Len(calls) < 3 => writes = <<>>)
    /\ (pc = "done" => Stages = Pipeline)
    /\ (pc = "failed" => Len(calls) < 3)

\* C1 reached: a second run that went through all three stages and wrote once
C1_Witness ==
    /\ pc = "done"
    /\ runs = 2
    /\ Stages = Pipeline
    /\ writes = <<table_name>>

\* C2: when the fetch fails the failure leaves run(): transform and load are not
\* invoked, nothing is written, the destination table is as the run found it, and
\* completion is not logged.
C2_FetchFailurePropagates ==
    raised = "FetchError" =>
        /\ pc = "failed"
        /\ Stages = <<"extract">>
        /\ writes = <<>>
        /\ db = db_before
        /\ ~Logged("completed")
        /\ loaded = "none"

\* C2 reached: a fetch fails in a run that follows a successful load
C2_Witness ==
    /\ raised = "FetchError"
    /\ pc = "failed"
    /\ db.exists
    /\ lastLoaded.some

\* C3: load never raises: on a failed create_engine or a failed write it makes at
\* most one write attempt, under the configured table name, logs the error and
\* returns, and run() goes on to log completion with nothing persisted.
C3_LoadNeverRaises ==
    /\ (Len(calls) >= 3 => pc \in {"complete", "done"} /\ raised = "none")
    /\ (pc = "complete" => ENABLED Complete)
    /\ (loaded \in {"engine_failed", "write_failed"} =>
            /\ Logged("load_error") /\ ~Logged("loaded")
            /\ writes = (IF loaded = "write_failed" THEN <<table_name>> ELSE <<>>)
            /\ (db = db_before \/ db.rows = <<>>)
            /\ (loaded = "engine_failed" => db = db_before)
            /\ (pc = "done" => log[Len(log)].msg = "completed"))

\* C3 reached: a run completes although its write failed in mid-replace
C3_Witness ==
    /\ pc = "done"
    /\ loaded = "write_failed"
    /\ Logged("completed")
    /\ db # db_before

\* the frame transform returned
Output == heap[cleaned_df]
Returned == cleaned_df # 0
SameCells(t, i, j) == t.rows[i].cells = t.rows[j].cells
HoldsSentinel(t) ==
    \E i \in 1..NRows(t) : \E c \in 1..NCols(t) : t.rows[i].cells[c] = Sentinel

\* C4: the frame transform returns holds no "?" cell and no two rows equal in
\* every column.
C4_NoSentinelNoDuplicates ==
    Returned =>
        /\ ~HoldsSentinel(Output)
        /\ \A i, j \in 1..NRows(Output) : i # j => ~SameCells(Output, i, j)

\* a value pd.to_numeric accepts, and the number it stands for
NumericValued(c) == c.k = "int" \/ (c.k = "str" /\ c.s \in DOMAIN NumLiteral)
NumberOf(c) == IF c.k = "int" THEN c.n ELSE NumLiteral[c.s]
\* all-or-nothing: every value parsed, or the column as it was
Coerced(before, after) ==
    IF \A i \in DOMAIN before : NumericValued(before[i])
    THEN /\ DOMAIN after = DOMAIN before
         /\ \A i \in DOMAIN before : after[i] = IntCell(NumberOf(before[i]))
    ELSE after = before
PastDropna == Len(heap) >= 3

\* C5: numeric coercion is all-or-nothing per column and independent across
\* columns: of the rows that survive dropna, a column whose every value parses
\* holds the parsed numbers after the numeric loop, any other column is unchanged
\* whatever the other columns did; a column the loop has not reached is untouched,
\* and a column not named as a date reaches the returned frame that way.
C5_NumericCoercionAllOrNothing ==
    PastDropna =>
        /\ heap[df].cols = survivors.cols
        /\ NRows(heap[df]) = NRows(survivors)
        /\ \A c \in 1..NCols(survivors) :
            /\ (pc = "numeric" /\ c >= col =>
                    Column(heap[df], c) = Column(survivors, c))
            /\ (pc = "numeric" /\ c < col =>
                    Coerced(Column(survivors, c), Column(heap[df], c)))
            /\ (pc # "numeric" /\ ~IsDateName(survivors.cols[c]) =>
                    Coerced(Column(survivors, c), Column(heap[df], c)))

\* C5 reached: one column converted from text while the other, holding a number
\* and a non-numeric text, came back as it was
C5_Witness ==
    /\ Returned
    /\ NCols(survivors) = 2
    /\ \E i \in 1..NRows(survivors) :
        /\ survivors.rows[i].cells[1].k = "str"
        /\ Output.rows[i].cells[1].k = "int"
    /\ \E i, j \in 1..NRows(survivors) :
        /\ survivors.rows[i].cells[2].k = "int"
        /\ survivors.rows[j].cells[2] = StrCell("x")
        /\ Column(Output, 2) = Column(survivors, 2)

\* the stored table holds the frame's columns and rows and nothing else
Matches(stored, t) ==
    /\ stored.exists
    /\ stored.cols = t.cols
    /\ Len(stored.rows) = NRows(t)
    /\ \A i \in 1..NRows(t) : stored.rows[i] = t.rows[i].cells

\* C6 as stated: after any sequence of runs the destination table equals the
\* table of the most recent load that succeeded.
C6_AlwaysLastSuccessfulLoad ==
    lastLoaded.some => Matches(db, lastLoaded.frame)

\* C6 amended: right after a load that succeeds the destination table holds
\* exactly the columns and rows of the frame passed to load, whatever it held
\* before; after any sequence of runs it is never a union of runs: it is the
\* table of the most recent successful load, unless a later load failed in
\* mid-replace, which leaves that table, no table or a table without rows (and
\* before the first success, the prior table or one of the latter two).
C6_ReplaceSemantics ==
    /\ (loaded = "ok" =>
            /\ Matches(db, Output)
            /\ lastLoaded = [some |-> TRUE, frame |-> Output])
    /\ \/ db = NoTable
       \/ db.rows = <<>>
       \/ ~lastLoaded.some /\ db = PriorTable
       \/ lastLoaded.some /\ Matches(db, lastLoaded.frame)

\* C6 reached: a second run replaces the rows an earlier run stored
C6_Witness ==
    /\ loaded = "ok"
    /\ runs = 2
    /\ db_before.exists /\ db_before.rows # <<>>
    /\ db_before # PriorTable
    /\ db.rows # <<>>
    /\ db # db_before

\* C7: transform never raises; a column whose conversion fails is left as it was,
\* and the empty table comes back empty.
C7_TransformTotal ==
    /\ (Len(calls) >= 2 => raised = "none")
    /\ (Returned /\ NRows(remote) = 0 => Output = remote)

\* the %Y-%m-%d strings
CanonicalDates == {StrCell(DateLiteral[x].ymd) : x \in DOMAIN DateLiteral}

\* C8: in the returned frame every cell of a column named as a date is a
\* normalized date string, none a missing marker.
C8_DateColumnsNormalized ==
    Returned =>
        \A c \in 1..NCols(Output) : IsDateName(Output.cols[c]) =>
            \A i \in 1..NRows(Output) : Output.rows[i].cells[c] \in CanonicalDates

\* C9: the frame the caller handed to transform keeps its rows, cells (sentinels
\* included) and types throughout transform and after it.
C9_InputUntouched ==
    raw_df # 0 => heap[raw_df] = remote

\* C9 reached: transform returned a cleaned frame for an input without duplicate
\* rows that holds the sentinel
C9_Witness ==
    /\ Returned
    /\ NRows(remote) >= 2
    /\ Duplicated(remote.rows) = {}
    /\ HoldsSentinel(remote)
    /\ HoldsSentinel(heap[raw_df])
    /\ Output # remote

\* what transform would keep with the first steps in the other order
DropMissingFirst(t) == DropDuplicatesFrame(DropnaFrame(ReplaceFrame(t)))
\* two rows that differ only in that one holds "?" where the other is missing
SentinelTwins(t) ==
    \E i, j \in 1..NRows(t) :
        /\ ~SameCells(t, i, j)
        /\ ReplaceFrame(t).rows[i].cells = t.rows[j].cells

\* C10 as stated: for a table with such twin rows, dropping missing rows before
\* deduplicating keeps other rows than the order of the code.
C10_OrderChangesSurvivors ==
    PastDropna /\ SentinelTwins(remote) => survivors # DropMissingFirst(remote)

\* C10 amended: transform deduplicates first, keeping the first occurrence of each
\* row in the original order, then normalizes sentinels and drops the rows with
\* a missing marker; for every input the rows that survive, and their order, are
\* the same as with the missing rows dropped first.
C10_OrderKeepsSurvivors ==
    /\ (pc = "replace" =>
            /\ \A i \in 1..NRows(remote) :
                (\E k \in 1..NRows(heap[df]) : heap[df].rows[k] = remote.rows[i])
                    <=> (\A j \in 1..(i - 1) : ~SameCells(remote, i, j))
            /\ \A k, l \in 1..NRows(heap[df]) :
                k < l => heap[df].rows[k].idx < heap[df].rows[l].idx)
    /\ (PastDropna => survivors = DropMissingFirst(remote))

\* C10 reached: an input with twin rows where both the deduplication and the
\* drop of missing rows removed something
C10_Witness ==
    /\ PastDropna
    /\ SentinelTwins(remote)
    /\ Duplicated(remote.rows) # {}
    /\ NRows(heap[2]) < NRows(remote)
    /\ NRows(survivors) < NRows(heap[2])

====
